---------------------------- MODULE Spec2Model ----------------------------
(***************************************************************************)
(* The size-bounded LRU object cache of cpp/src/cache/Cache.cpp.           *)
(*                                                                         *)
(* The cache owns a recency index lru_ (class LRU, kept outside Cache.cpp),*)
(* a usage counter usage_, a capacity capacity_ and one mutex mutex_.      *)
(* Every public method is a sequence of steps of a calling thread; a step  *)
(* is one access to the state other threads can see.  usage_ and capacity_ *)
(* are read outside mutex_ by insert and free_memory, so every write of    *)
(* usage_ inside a critical section is a step of its own.                  *)
(***************************************************************************)
EXTENDS Integers, Sequences, FiniteSets, TLC

(***************************************************************************)
(* Bounds of the model.                                                    *)
(***************************************************************************)
\* insert is not called once usage_ + size would pass MaxUsage
MaxUsage == 160
\* the small entry-count cap a cache may be constructed with
SmallMaxCount == 2
ConcMaxCount == 1

(***************************************************************************)
(* Program constants.                                                      *)
(***************************************************************************)
\* DEFAULT_THRESHHOLD_PERCENT = 0.85, as a percentage
FreememPercent == 85

Keys == {"A", "B", "C", "D"}
ConcKeys == {"A", "B"}
\* std::set<std::string> iterates its keys in ascending order
KeyRank == [k \in Keys |-> CASE k = "A" -> 1 [] k = "B" -> 2
                             [] k = "C" -> 3 [] k = "D" -> 4]

\* a DataObj: an identity and the byte size size() reports
Payloads == {[id |-> 1, size |-> 40], [id |-> 2, size |-> 50],
             [id |-> 3, size |-> 0]}
ConcPayloads == {[id |-> 1, size |-> 40], [id |-> 2, size |-> 50]}

InitCapacities == {0, 100}
ConcInitCapacities == {50}
SetCapacityArgs == {-50, 0, 40, 50}
ConcSetCapacityArgs == {40}
NoCap == Cardinality(Keys)
MaxCounts == {SmallMaxCount, NoCap}

Threads == {1, 2}
SeqThreads == {1}

NoKey == "none"
NoPayload == [id |-> 0, size |-> 0]
NoOp == [name |-> "none", key |-> NoKey, data |-> NoPayload, cap |-> 0]
NoPre == [lru |-> <<>>, usage |-> -1, capacity |-> -1]
NoRet == [kind |-> "none", data |-> NoPayload, num |-> 0]
LivePayloads == {[id |-> 1, size |-> 50]}
OwnCapacities == {200}
Owner(k) == IF k = "B" THEN 2 ELSE 1
OwnKeys(t) == {k \in {"A", "B", "C"} : Owner(k) = t}
LastCallOff == [on |-> FALSE, of |-> [k \in Keys |-> NoOp]]
LastCallOn == [on |-> TRUE, of |-> [k \in Keys |-> NoOp]]

VARIABLES
    lru,            \* lru_: the entries, most recently used first
    usage,          \* usage_
    capacity,       \* capacity_
    max_size,       \* lru_'s entry-count cap (cache_max_count)
    mutex,          \* mutex_: 0 when free, else the thread holding it
    pc,             \* each thread's position
    op,             \* each thread's current call and its arguments
    key_array,      \* free_memory's key_array, per thread
    threshhold,     \* free_memory's threshhold, per thread
    delta_size,     \* free_memory's delta_size, per thread
    released_size,  \* free_memory's released_size, per thread
    ret,            \* the value the current call returns
    pre,            \* the cache as it was when the current call began
    acc,            \* present keys by last access (get or insert), latest first
    lastIns,        \* present keys' most recently inserted payload
    passOrder,      \* acc, with lastIns, as it was when the current eviction pass scanned
    scen,           \* how far the run has followed Script, -1 when it left it
    lastCall,       \* per key, the last call made on it (recorded when switched on)
    capbuf          \* per thread, its store to capacity_ not yet visible to others, else 0

vars == <<lru, usage, capacity, max_size, mutex, pc, op, key_array, threshhold,
          delta_size, released_size, ret, pre, acc, lastIns, passOrder, scen, lastCall, capbuf>>

(***************************************************************************)
(* Sequences of entries.                                                   *)
(***************************************************************************)
KeysOf(l) == {l[i].key : i \in 1..Len(l)}

RECURSIVE SumSizes(_)
SumSizes(l) == IF l = <<>> THEN 0 ELSE Head(l).data.size + SumSizes(Tail(l))

RECURSIVE Without(_, _)
Without(l, k) ==
    IF l = <<>> THEN <<>>
    ELSE IF Head(l).key = k THEN Without(Tail(l), k)
    ELSE <<Head(l)>> \o Without(Tail(l), k)

RECURSIVE SeqWithout(_, _)
SeqWithout(s, k) ==
    IF s = <<>> THEN <<>>
    ELSE IF Head(s) = k THEN SeqWithout(Tail(s), k)
    ELSE <<Head(s)>> \o SeqWithout(Tail(s), k)

RECURSIVE SeqRestrict(_, _)
SeqRestrict(s, K) ==
    IF s = <<>> THEN <<>>
    ELSE IF Head(s) \in K THEN <<Head(s)>> \o SeqRestrict(Tail(s), K)
    ELSE SeqRestrict(Tail(s), K)

EntryOf(l, k) == l[CHOOSE i \in 1..Len(l) : l[i].key = k]

(***************************************************************************)
(* The recency index, class LRU.                                           *)
(***************************************************************************)
LRU_exists(l, k) == k \in KeysOf(l)

LRU_size(l) == Len(l)

\* get touches the key: its entry moves to the most-recently-used end
LRU_get(l, k) == <<EntryOf(l, k)>> \o Without(l, k)

\* put inserts at the most-recently-used end; past the entry-count cap the
\* least-recently-used entry is dropped
LRU_put(l, k, d, max) ==
    LET l1 == <<[key |-> k, data |-> d]>> \o Without(l, k)
    IN  IF Len(l1) > max THEN SubSeq(l1, 1, Len(l1) - 1) ELSE l1

LRU_erase(l, k) == Without(l, k)

LRU_clear(l) == <<>>

\* obj_ptr->data_ = data_ptr on the entry of key k
SetData(l, k, d) ==
    [i \in 1..Len(l) |-> IF l[i].key = k THEN [key |-> k, data |-> d] ELSE l[i]]

(***************************************************************************)
(* free_memory's arithmetic and traversal.                                 *)
(***************************************************************************)
\* a threshhold without the percentage: eviction down to capacity only
ThreshholdIsCapacity(c) == c

\* int64_t threshhold = capacity_ * freemem_percent_: the conversion of the
\* double product truncates toward zero
Threshhold(c) ==
    IF c >= 0 THEN (c * FreememPercent) \div 100
    ELSE -(((-c) * FreememPercent) \div 100)

\* a traversal that starts from lru_.begin(), the most recently used
ScanStartMru(l) == 1

\* the entry the traversal starts from: lru_.rbegin(), the least recently used
ScanStart(l) == Len(l)

\* the entry after position i in the traversal: ++it on a reverse iterator
ScanStep(i) == i - 1

\* a traversal that does not look at released_size: it runs to lru_.rend()
ScanLoopToEnd(l, i, keys, released, delta) ==
    [keys |-> keys \cup {l[j].key : j \in 1..i},
     released |-> released + SumSizes(SubSeq(l, 1, i))]

\* while (it != lru_.rend() && released_size < delta_size)
RECURSIVE ScanLoop(_, _, _, _, _)
ScanLoop(l, i, keys, released, delta) ==
    IF i >= 1 /\ i <= Len(l) /\ released < delta
    THEN ScanLoop(l, ScanStep(i), keys \cup {l[i].key},
                  released + l[i].data.size, delta)
    ELSE [keys |-> keys, released |-> released]

Scan(l, delta) == ScanLoop(l, ScanStart(l), {}, 0, delta)

\* for (auto& key : key_array): the next key of the ordered set
NextKey(K) == CHOOSE k \in K : \A j \in K : KeyRank[k] <= KeyRank[j]


(***************************************************************************)
(* The decisions and assignments of Cache's methods.                       *)
(***************************************************************************)
\* a guard that lets a capacity of zero through
SetCapacityAcceptsZero(c) == c >= 0

\* set_capacity: if (capacity > 0)
SetCapacityAccepts(c) == c > 0

\* a check that also triggers at usage_ = capacity_
OverCapacityOrAt(u, c) == u >= c

\* insert: if (usage_ > capacity_), and free_memory's negated early return
OverCapacity(u, c) == u > c

\* an overwrite that keeps counting the old payload
OverwriteSubNothing(u, old) == u

\* insert, key present: usage_ -= obj_ptr->data_->size()
OverwriteSub(u, old) == u - old.size

\* an insert that forgets to count the new payload
InsertAddNothing(u, d) == u

\* insert: usage_ += data_ptr->size()
InsertAdd(u, d) == u + d.size

\* an erase that forgets the accounting
EraseSubNothing(u, d) == u

\* erase: usage_ -= data_ptr->size()
EraseSub(u, d) == u - d.size

\* erase as a whole, from index l and usage u
EraseOutcome(l, u, k) ==
    IF ~LRU_exists(l, k) THEN [lru |-> l, usage |-> u]
    ELSE [lru |-> LRU_erase(LRU_get(l, k), k),
          usage |-> EraseSub(u, EntryOf(l, k).data)]

\* a clear that leaves the counter as it is
ClearUsageKept(u) == u

\* clear: usage_ = 0
ClearUsage(u) == 0

\* a membership test that touches the key as get does
ExistsIndexTouching(l, k) == IF LRU_exists(l, k) THEN LRU_get(l, k) ELSE l

\* exists: lru_.exists(key) leaves the index as it is
ExistsIndex(l, k) == l

\* get, key present: lru_.get(key)
GetIndex(l, k) == LRU_get(l, k)

\* get: nullptr for an absent key, else cache_obj->data_
GetResult(l, k) ==
    IF ~LRU_exists(l, k) THEN [kind |-> "absent", data |-> NoPayload, num |-> 0]
    ELSE [kind |-> "data", data |-> EntryOf(l, k).data, num |-> 0]

\* insert, key present: CacheObjPtr obj_ptr = lru_.get(key)
OverwriteIndex(l, k) == LRU_get(l, k)

\* a delta that ignores the threshhold: everything is to be released
DeltaSizeIsUsage(u, th) == u

\* free_memory: int64_t delta_size = usage_ - threshhold
DeltaSize(u, th) == u - th

(***************************************************************************)
(* The record of accesses the properties are stated against.               *)
(***************************************************************************)
Present == KeysOf(lru)

Snapshot == [lru |-> lru, usage |-> usage, capacity |-> capacity]

\* acc after an access to key k (NoKey: no access) that leaves index l
AccAfter(k, l) ==
    SeqRestrict(IF k = NoKey THEN acc ELSE <<k>> \o SeqWithout(acc, k), KeysOf(l))

\* lastIns after an insert of d under key k (NoKey: no insert) that leaves l
LastInsAfter(k, d, l) ==
    [x \in Keys |-> IF x \notin KeysOf(l) THEN NoPayload
                    ELSE IF x = k THEN d ELSE lastIns[x]]

\* the worked scenario of the specification's section 8
Script == << [name |-> "insert", key |-> "A", size |-> 40],
             [name |-> "insert", key |-> "B", size |-> 40],
             [name |-> "insert", key |-> "C", size |-> 40],
             [name |-> "get",    key |-> "B", size |-> 0],
             [name |-> "insert", key |-> "D", size |-> 50] >>

ScenAfter(o) ==
    IF scen >= 0 /\ scen < Len(Script)
       /\ Script[scen + 1].name = o.name /\ Script[scen + 1].key = o.key
       /\ Script[scen + 1].size = o.data.size
    THEN scen + 1 ELSE -1

\* the record of the last call per key, where it is kept
LastCallAfter(o) ==
    IF lastCall.on /\ o.key \in Keys
    THEN [lastCall EXCEPT !.of[o.key] = o]
    ELSE lastCall

\* capacity_ as thread t reads it: its own pending store, else the shared value
CapacitySeen(t) == IF capbuf[t] # 0 THEN capbuf[t] ELSE capacity

(***************************************************************************)
(* Initial states: Cache::Cache(capacity, cache_max_count).                *)
(***************************************************************************)
InitWith(C, M) ==
    /\ lru = <<>>
    /\ usage = 0
    /\ capacity \in C
    /\ max_size \in M
    /\ mutex = 0
    /\ pc = [t \in Threads |-> "idle"]
    /\ op = [t \in Threads |-> NoOp]
    /\ key_array = [t \in Threads |-> {}]
    /\ threshhold = [t \in Threads |-> 0]
    /\ delta_size = [t \in Threads |-> 0]
    /\ released_size = [t \in Threads |-> 0]
    /\ ret = [t \in Threads |-> NoRet]
    /\ pre = [t \in Threads |-> NoPre]
    /\ acc = <<>>
    /\ lastIns = [k \in Keys |-> NoPayload]
    /\ passOrder = <<>>
    /\ capbuf = [t \in Threads |-> 0]

Init ==
    /\ InitWith(InitCapacities, MaxCounts)
    /\ scen = IF capacity = 100 /\ max_size >= NoCap THEN 0 ELSE -1
    /\ lastCall = LastCallOff

InitConc ==
    /\ InitWith(ConcInitCapacities, {NoCap})
    /\ scen = -1
    /\ lastCall = LastCallOff

InitRace ==
    /\ InitWith(ConcInitCapacities, {ConcMaxCount, NoCap})
    /\ scen = -1
    /\ lastCall = LastCallOff

InitOwn ==
    /\ InitWith(OwnCapacities, MaxCounts)
    /\ scen = -1
    /\ lastCall = LastCallOn

(***************************************************************************)
(* A thread calls a method.                                                *)
(***************************************************************************)
Call(t, o, track) ==
    /\ pc[t] = "idle"
    /\ capbuf[t] = 0
    /\ pc' = [pc EXCEPT ![t] = o.name]
    /\ op' = [op EXCEPT ![t] = o]
    /\ pre' = [pre EXCEPT ![t] = IF track THEN Snapshot ELSE NoPre]
    /\ scen' = ScenAfter(o)
    /\ lastCall' = LastCallAfter(o)
    /\ UNCHANGED <<lru, usage, capacity, max_size, mutex, key_array, threshhold,
                   delta_size, released_size, ret, acc, lastIns, passOrder, capbuf>>

CallInsert(t, K, P, track) ==
    \E k \in K, d \in P :
        /\ usage + d.size <= MaxUsage
        /\ Call(t, [name |-> "insert", key |-> k, data |-> d, cap |-> 0], track)

CallGet(t, K, track) ==
    \E k \in K : Call(t, [name |-> "get", key |-> k, data |-> NoPayload, cap |-> 0], track)

CallExists(t, K, track) ==
    \E k \in K : Call(t, [name |-> "exists", key |-> k, data |-> NoPayload, cap |-> 0], track)

CallSize(t, track) ==
    Call(t, [name |-> "size", key |-> NoKey, data |-> NoPayload, cap |-> 0], track)

CallErase(t, K, track) ==
    \E k \in K : Call(t, [name |-> "erase", key |-> k, data |-> NoPayload, cap |-> 0], track)

CallClear(t, track) ==
    Call(t, [name |-> "clear", key |-> NoKey, data |-> NoPayload, cap |-> 0], track)

CallSetCapacity(t, C, track) ==
    \E c \in C :
        Call(t, [name |-> "set_capacity", key |-> NoKey, data |-> NoPayload, cap |-> c], track)

\* the call returns to its caller
Return(t) ==
    /\ pc[t] = "done"
    /\ pc' = [pc EXCEPT ![t] = "idle"]
    /\ op' = [op EXCEPT ![t] = NoOp]
    /\ ret' = [ret EXCEPT ![t] = NoRet]
    /\ pre' = [pre EXCEPT ![t] = NoPre]
    /\ key_array' = [key_array EXCEPT ![t] = {}]
    /\ threshhold' = [threshhold EXCEPT ![t] = 0]
    /\ delta_size' = [delta_size EXCEPT ![t] = 0]
    /\ released_size' = [released_size EXCEPT ![t] = 0]
    /\ passOrder' = IF pre[t] = NoPre THEN passOrder ELSE <<>>
    /\ UNCHANGED <<lru, usage, capacity, max_size, mutex, acc, lastIns, scen, lastCall, capbuf>>

(***************************************************************************)
(* size, exists and get: one critical section each, reading lru_ only.     *)
(***************************************************************************)
size(t) ==
    /\ pc[t] = "size"
    /\ mutex = 0
    /\ ret' = [ret EXCEPT ![t] = [kind |-> "count", data |-> NoPayload,
                                  num |-> LRU_size(lru)]]
    /\ pc' = [pc EXCEPT ![t] = "done"]
    /\ UNCHANGED <<lru, usage, capacity, max_size, mutex, op, key_array, threshhold,
                   delta_size, released_size, pre, acc, lastIns, passOrder, scen, lastCall, capbuf>>

exists(t) ==
    /\ pc[t] = "exists"
    /\ mutex = 0
    /\ ret' = [ret EXCEPT ![t] =
                 [kind |-> IF LRU_exists(lru, op[t].key) THEN "true" ELSE "false",
                  data |-> NoPayload, num |-> 0]]
    /\ lru' = ExistsIndex(lru, op[t].key)
    /\ pc' = [pc EXCEPT ![t] = "done"]
    /\ UNCHANGED <<usage, capacity, max_size, mutex, op, key_array, threshhold,
                   delta_size, released_size, pre, acc, lastIns, passOrder, scen, lastCall, capbuf>>

get(t) ==
    /\ pc[t] = "get"
    /\ mutex = 0
    /\ ret' = [ret EXCEPT ![t] = GetResult(lru, op[t].key)]
    /\ IF ~LRU_exists(lru, op[t].key)
       THEN UNCHANGED <<lru, acc>>
       ELSE /\ lru' = GetIndex(lru, op[t].key)
            /\ acc' = AccAfter(op[t].key, lru')
    /\ pc' = [pc EXCEPT ![t] = "done"]
    /\ UNCHANGED <<usage, capacity, max_size, mutex, op, key_array, threshhold,
                   delta_size, released_size, pre, lastIns, passOrder, scen, lastCall, capbuf>>

(***************************************************************************)
(* insert.                                                                 *)
(***************************************************************************)
\* the lock is taken; the key is touched and the old size subtracted, or the
\* new entry is put
insert_begin(t) ==
    /\ pc[t] = "insert"
    /\ mutex = 0
    /\ mutex' = t
    /\ IF LRU_exists(lru, op[t].key)
       THEN /\ lru' = OverwriteIndex(lru, op[t].key)
            /\ usage' = OverwriteSub(usage, EntryOf(lru, op[t].key).data)
            /\ pc' = [pc EXCEPT ![t] = "insert_ow"]
       ELSE /\ lru' = LRU_put(lru, op[t].key, op[t].data, max_size)
            /\ usage' = usage
            /\ pc' = [pc EXCEPT ![t] = "insert_new"]
    /\ acc' = AccAfter(op[t].key, lru')
    /\ lastIns' = LastInsAfter(op[t].key, op[t].data, lru')
    /\ UNCHANGED <<capacity, max_size, op, key_array, threshhold, delta_size,
                   released_size, ret, pre, passOrder, scen, lastCall, capbuf>>

\* an insert that goes on to its check with the lock still held
InsertKeepsLock(t) == t

\* std::lock_guard of insert goes out of scope before usage_ > capacity_ is read
InsertUnlock(t) == 0

\* the payload is stored (key present), the new size added, the lock released
insert_finish(t) ==
    /\ pc[t] \in {"insert_ow", "insert_new"}
    /\ mutex = t
    /\ lru' = IF pc[t] = "insert_ow" THEN SetData(lru, op[t].key, op[t].data) ELSE lru
    /\ usage' = InsertAdd(usage, op[t].data)
    /\ mutex' = InsertUnlock(t)
    /\ pc' = [pc EXCEPT ![t] = "insert_check"]
    /\ UNCHANGED <<capacity, max_size, op, key_array, threshhold, delta_size,
                   released_size, ret, pre, acc, lastIns, passOrder, scen, lastCall, capbuf>>

\* if (usage_ > capacity_) free_memory(), read without the lock
insert_check(t) ==
    /\ pc[t] = "insert_check"
    /\ pc' = [pc EXCEPT ![t] = IF OverCapacity(usage, capacity) THEN "fm_check"
                               ELSE "done"]
    /\ UNCHANGED <<lru, usage, capacity, max_size, mutex, op, key_array, threshhold,
                   delta_size, released_size, ret, pre, acc, lastIns, passOrder, scen, lastCall, capbuf>>

(***************************************************************************)
(* erase, called by a client (pc "erase") or by free_memory ("fm_erase").  *)
(***************************************************************************)
EraseKey(t) == IF pc[t] \in {"erase", "erase_rm"} THEN op[t].key
               ELSE NextKey(key_array[t])

\* the position after erase returns
AfterErase(t) ==
    IF pc[t] \in {"erase", "erase_rm"} THEN "done"
    ELSE IF key_array[t] \ {EraseKey(t)} = {} THEN "fm_print" ELSE "fm_erase"

AfterEraseKeys(t) ==
    IF pc[t] \in {"erase", "erase_rm"} THEN key_array[t]
    ELSE key_array[t] \ {EraseKey(t)}

\* the lock is taken; an absent key returns at once, else the size is subtracted
erase_begin(t) ==
    /\ pc[t] \in {"erase", "fm_erase"}
    /\ mutex = 0
    /\ IF ~LRU_exists(lru, EraseKey(t))
       THEN /\ pc' = [pc EXCEPT ![t] = AfterErase(t)]
            /\ key_array' = [key_array EXCEPT ![t] = AfterEraseKeys(t)]
            /\ UNCHANGED <<lru, usage, mutex>>
       ELSE /\ lru' = LRU_get(lru, EraseKey(t))
            /\ usage' = EraseSub(usage, EntryOf(lru, EraseKey(t)).data)
            /\ mutex' = t
            /\ pc' = [pc EXCEPT ![t] = IF pc[t] = "erase" THEN "erase_rm"
                                       ELSE "fm_erase_rm"]
            /\ UNCHANGED key_array
    /\ UNCHANGED <<capacity, max_size, op, threshhold, delta_size, released_size,
                   ret, pre, acc, lastIns, passOrder, scen, lastCall, capbuf>>

\* lru_.erase(key), and the lock is released
erase_remove(t) ==
    /\ pc[t] \in {"erase_rm", "fm_erase_rm"}
    /\ mutex = t
    /\ lru' = LRU_erase(lru, EraseKey(t))
    /\ mutex' = 0
    /\ pc' = [pc EXCEPT ![t] = AfterErase(t)]
    /\ key_array' = [key_array EXCEPT ![t] = AfterEraseKeys(t)]
    /\ acc' = AccAfter(NoKey, lru')
    /\ lastIns' = LastInsAfter(NoKey, NoPayload, lru')
    /\ UNCHANGED <<usage, capacity, max_size, op, threshhold, delta_size,
                   released_size, ret, pre, passOrder, scen, lastCall, capbuf>>

(***************************************************************************)
(* clear.                                                                  *)
(***************************************************************************)
clear_begin(t) ==
    /\ pc[t] = "clear"
    /\ mutex = 0
    /\ mutex' = t
    /\ lru' = LRU_clear(lru)
    /\ pc' = [pc EXCEPT ![t] = "clear_zero"]
    /\ acc' = AccAfter(NoKey, lru')
    /\ lastIns' = LastInsAfter(NoKey, NoPayload, lru')
    /\ UNCHANGED <<usage, capacity, max_size, op, key_array, threshhold, delta_size,
                   released_size, ret, pre, passOrder, scen, lastCall, capbuf>>

clear_finish(t) ==
    /\ pc[t] = "clear_zero"
    /\ mutex = t
    /\ usage' = ClearUsage(usage)
    /\ mutex' = 0
    /\ pc' = [pc EXCEPT ![t] = "done"]
    /\ UNCHANGED <<lru, capacity, max_size, op, key_array, threshhold, delta_size,
                   released_size, ret, pre, acc, lastIns, passOrder, scen, lastCall, capbuf>>

(***************************************************************************)
(* set_capacity and free_memory.                                           *)
(***************************************************************************)
set_capacity(t) ==
    /\ pc[t] = "set_capacity"
    /\ IF SetCapacityAccepts(op[t].cap)
       THEN /\ capacity' = op[t].cap
            /\ pc' = [pc EXCEPT ![t] = "fm_check"]
       ELSE /\ capacity' = capacity
            /\ pc' = [pc EXCEPT ![t] = "done"]
    /\ UNCHANGED <<lru, usage, max_size, mutex, op, key_array, threshhold,
                   delta_size, released_size, ret, pre, acc, lastIns, passOrder, scen, lastCall, capbuf>>

\* capacity_ = capacity is a plain store made without the lock: the store may
\* sit in the writing thread's store buffer, seen by that thread only, while
\* the thread goes on to free_memory's first read of usage_
set_capacity_buffered(t) ==
    /\ pc[t] = "set_capacity"
    /\ SetCapacityAccepts(op[t].cap)
    /\ capbuf' = [capbuf EXCEPT ![t] = op[t].cap]
    /\ pc' = [pc EXCEPT ![t] = "fm_check"]
    /\ UNCHANGED <<lru, usage, capacity, max_size, mutex, op, key_array, threshhold,
                   delta_size, released_size, ret, pre, acc, lastIns, passOrder,
                   scen, lastCall>>

\* the buffered store reaches memory; taking the lock (free_memory's traversal,
\* print, the next call) waits for it
flush_capacity(t) ==
    /\ capbuf[t] # 0
    /\ capacity' = capbuf[t]
    /\ capbuf' = [capbuf EXCEPT ![t] = 0]
    /\ UNCHANGED <<lru, usage, max_size, mutex, pc, op, key_array, threshhold,
                   delta_size, released_size, ret, pre, acc, lastIns, passOrder,
                   scen, lastCall>>

\* if (usage_ <= capacity_) return
free_memory_check(t) ==
    /\ pc[t] = "fm_check"
    /\ pc' = [pc EXCEPT ![t] = IF OverCapacity(usage, CapacitySeen(t)) THEN "fm_thresh"
                               ELSE "done"]
    /\ UNCHANGED <<lru, usage, capacity, max_size, mutex, op, key_array, threshhold,
                   delta_size, released_size, ret, pre, acc, lastIns, passOrder, scen, lastCall, capbuf>>

free_memory_threshhold(t) ==
    /\ pc[t] = "fm_thresh"
    /\ threshhold' = [threshhold EXCEPT ![t] = Threshhold(CapacitySeen(t))]
    /\ pc' = [pc EXCEPT ![t] = "fm_delta"]
    /\ UNCHANGED <<lru, usage, capacity, max_size, mutex, op, key_array,
                   delta_size, released_size, ret, pre, acc, lastIns, passOrder, scen, lastCall, capbuf>>

free_memory_delta(t) ==
    /\ pc[t] = "fm_delta"
    /\ delta_size' = [delta_size EXCEPT ![t] = DeltaSize(usage, threshhold[t])]
    /\ pc' = [pc EXCEPT ![t] = "fm_scan"]
    /\ UNCHANGED <<lru, usage, capacity, max_size, mutex, op, key_array,
                   threshhold, released_size, ret, pre, acc, lastIns, passOrder, scen, lastCall, capbuf>>

\* the traversal, one critical section
free_memory_scan(t) ==
    /\ pc[t] = "fm_scan"
    /\ mutex = 0
    /\ capbuf[t] = 0
    /\ LET r == Scan(lru, delta_size[t])
       IN  /\ key_array' = [key_array EXCEPT ![t] = r.keys]
           /\ released_size' = [released_size EXCEPT ![t] = r.released]
           /\ pc' = [pc EXCEPT ![t] = IF r.keys = {} THEN "fm_print" ELSE "fm_erase"]
    /\ passOrder' = IF pre[t] = NoPre THEN passOrder
                    ELSE [i \in 1..Len(acc) |-> [key |-> acc[i], data |-> lastIns[acc[i]]]]
    /\ UNCHANGED <<lru, usage, capacity, max_size, mutex, op, threshhold,
                   delta_size, ret, pre, acc, lastIns, scen, lastCall, capbuf>>

\* print(): lru_.size() in a critical section, then free_memory returns
print(t) ==
    /\ pc[t] = "fm_print"
    /\ mutex = 0
    /\ capbuf[t] = 0
    /\ pc' = [pc EXCEPT ![t] = "done"]
    /\ UNCHANGED <<lru, usage, capacity, max_size, mutex, op, key_array, threshhold,
                   delta_size, released_size, ret, pre, acc, lastIns, passOrder, scen, lastCall, capbuf>>

(***************************************************************************)
(* The specifications: one client thread, and two concurrent ones.         *)
(***************************************************************************)
Step(t) ==
    \/ size(t) \/ exists(t) \/ get(t)
    \/ insert_begin(t) \/ insert_finish(t) \/ insert_check(t)
    \/ erase_begin(t) \/ erase_remove(t)
    \/ clear_begin(t) \/ clear_finish(t)
    \/ set_capacity(t)
    \/ free_memory_check(t) \/ free_memory_threshhold(t) \/ free_memory_delta(t)
    \/ free_memory_scan(t) \/ print(t)
    \/ Return(t)

Next ==
    \E t \in SeqThreads :
        \/ CallInsert(t, Keys, Payloads, TRUE)
        \/ CallGet(t, Keys, TRUE)
        \/ CallExists(t, Keys, TRUE)
        \/ CallSize(t, TRUE)
        \/ CallErase(t, Keys, TRUE)
        \/ CallClear(t, TRUE)
        \/ CallSetCapacity(t, SetCapacityArgs, TRUE)
        \/ Step(t)

Spec == Init /\ [][Next]_vars

NextConc ==
    \E t \in Threads :
        \/ CallInsert(t, ConcKeys, ConcPayloads, FALSE)
        \/ CallGet(t, ConcKeys, FALSE)
        \/ CallExists(t, ConcKeys, FALSE)
        \/ CallSize(t, FALSE)
        \/ CallErase(t, ConcKeys, FALSE)
        \/ CallClear(t, FALSE)
        \/ CallSetCapacity(t, ConcSetCapacityArgs, FALSE)
        \/ Step(t)

SpecConc == InitConc /\ [][NextConc]_vars

\* two concurrent threads under fair scheduling: a thread inside a call keeps
\* being run, and a thread waiting for mutex_ gets it when it is released again
\* and again; no thread is obliged to make a call
NextLive ==
    \E t \in Threads :
        \/ CallInsert(t, ConcKeys, LivePayloads, FALSE)
        \/ CallGet(t, ConcKeys, FALSE)
        \/ CallExists(t, ConcKeys, FALSE)
        \/ CallSize(t, FALSE)
        \/ CallErase(t, ConcKeys, FALSE)
        \/ CallClear(t, FALSE)
        \/ CallSetCapacity(t, ConcSetCapacityArgs, FALSE)
        \/ Step(t)

SpecLive == InitConc /\ [][NextLive]_vars /\ \A t \in Threads : SF_vars(Step(t))

\* two concurrent threads calling insert, get, erase, clear and set_capacity,
\* the entry-count cap within reach, and the store of set_capacity to
\* capacity_ free to become visible late
StepRace(t) ==
    \/ get(t)
    \/ insert_begin(t) \/ insert_finish(t) \/ insert_check(t)
    \/ erase_begin(t) \/ erase_remove(t)
    \/ clear_begin(t) \/ clear_finish(t)
    \/ set_capacity(t) \/ set_capacity_buffered(t) \/ flush_capacity(t)
    \/ free_memory_check(t) \/ free_memory_threshhold(t) \/ free_memory_delta(t)
    \/ free_memory_scan(t) \/ print(t)
    \/ Return(t)

NextRace ==
    \E t \in Threads :
        \/ CallInsert(t, ConcKeys, ConcPayloads, FALSE)
        \/ CallGet(t, ConcKeys, FALSE)
        \/ CallErase(t, ConcKeys, FALSE)
        \/ CallClear(t, FALSE)
        \/ CallSetCapacity(t, ConcSetCapacityArgs, FALSE)
        \/ StepRace(t)

SpecRace == InitRace /\ [][NextRace]_vars

\* two concurrent threads that insert and erase keys of their own only, under a
\* capacity no usage reaches
StepOwn(t) ==
    \/ insert_begin(t) \/ insert_finish(t) \/ insert_check(t)
    \/ erase_begin(t) \/ erase_remove(t)
    \/ Return(t)

NextOwn ==
    \E t \in Threads :
        \/ CallInsert(t, OwnKeys(t), ConcPayloads, FALSE)
        \/ CallErase(t, OwnKeys(t), FALSE)
        \/ StepOwn(t)

SpecOwn == InitOwn /\ [][NextOwn]_vars

(***************************************************************************)
(* Shorthands of the properties.                                           *)
(***************************************************************************)
\* thread 1 is the client of the sequential specification
Me == CHOOSE t \in SeqThreads : TRUE

\* the call of thread 1 has run to its end and has not yet returned
AtReturn(name) == pc[Me] = "done" /\ op[Me].name = name

\* the entry-count cap was never in the way: every put kept all its entries
CapNotReached == max_size >= NoCap

KeySeq(l) == [i \in 1..Len(l) |-> l[i].key]

(***************************************************************************)
(* C1.  Usage invariant: whenever no operation is inside its critical      *)
(* section, usage equals the sum of the sizes of the entries in the        *)
(* recency index, for every capacity and every entry-count cap.            *)
(***************************************************************************)
C1_UsageInvariant == mutex = 0 => usage = SumSizes(lru)

(***************************************************************************)
(* C2.  LRU ordering: when an eviction pass of a sequential run has made   *)
(* its removals, no key A whose last access (get or insert) is later than  *)
(* that of a key B has been removed while B is still present; and a pass   *)
(* that needs one removal only (the entry accessed longest ago is at least *)
(* delta_size large) removes exactly that entry.                           *)
(***************************************************************************)
PassRemoved == KeysOf(passOrder) \ Present

C2_LruOrdering ==
    pc[Me] = "fm_print" =>
        /\ \A i, j \in 1..Len(passOrder) :
               (i < j /\ passOrder[i].key \notin Present)
                   => passOrder[j].key \notin Present
        /\ (/\ passOrder # <<>>
            /\ passOrder[Len(passOrder)].data.size >= delta_size[Me])
               => PassRemoved = {passOrder[Len(passOrder)].key}

\* a pass over three entries or more has removed some and kept some
C2_Witness ==
    /\ pc[Me] = "fm_print"
    /\ Len(passOrder) >= 3
    /\ Cardinality(PassRemoved) >= 2
    /\ Present # {}

(***************************************************************************)
(* C3.  Capacity convergence: in a sequential run with capacity > 0, when  *)
(* an insert left usage > capacity and its eviction pass has made its      *)
(* removals (nothing but the return is left), usage is at or below         *)
(* floor(capacity * 0.85), and so at or below capacity.                    *)
(***************************************************************************)
FloorThreshold(c) == (c * 85) \div 100

InsertEvicted == pc[Me] = "fm_print" /\ op[Me].name = "insert" /\ capacity > 0

C3_CapacityConvergence ==
    InsertEvicted => usage <= FloorThreshold(capacity) /\ usage <= capacity

\* the same, for caches whose entry-count cap is never reached
C3_ConvergenceBelowCap ==
    (InsertEvicted /\ CapNotReached) => usage <= FloorThreshold(capacity)

(***************************************************************************)
(* C4.  Overwrite semantics: when insert(key, payload) on a present key    *)
(* has ended its critical section (before any eviction), the entry count   *)
(* is what it was, a get of the key returns the new payload, usage has     *)
(* changed by exactly new_size - old_size, and the key is the most         *)
(* recently used: a traversal of eviction takes it only when it takes      *)
(* every present key.                                                      *)
(***************************************************************************)
Overwritten ==
    /\ pc[Me] = "insert_check"
    /\ op[Me].name = "insert"
    /\ op[Me].key \in KeysOf(pre[Me].lru)

C4_OverwriteSemantics ==
    Overwritten =>
        LET k == op[Me].key
            old == EntryOf(pre[Me].lru, k).data
        IN  /\ LRU_size(lru) = LRU_size(pre[Me].lru)
            /\ GetResult(lru, k) = [kind |-> "data", data |-> op[Me].data, num |-> 0]
            /\ usage = pre[Me].usage + (op[Me].data.size - old.size)
            /\ lru[1].key = k
            /\ acc[1] = k
            /\ \A d \in 1..(SumSizes(lru) + 1) :
                   k \in Scan(lru, d).keys => Scan(lru, d).keys = Present

\* a key that was not the most recently used is overwritten by a payload of
\* another size, among three entries
C4_Witness ==
    /\ Overwritten
    /\ Len(lru) >= 3
    /\ pre[Me].lru[1].key # op[Me].key
    /\ EntryOf(pre[Me].lru, op[Me].key).data.size # op[Me].data.size
    /\ EntryOf(pre[Me].lru, op[Me].key).data.size > 0

(***************************************************************************)
(* C5.  Idempotent erase: erase of an absent key changes neither usage,    *)
(* capacity, the key set nor the recency order; erase of a present key     *)
(* removes exactly that key and lowers usage by exactly its size; in both  *)
(* cases the key is absent afterwards, and a second erase of it would      *)
(* leave the cache exactly as the first one left it.                       *)
(***************************************************************************)
C5_IdempotentErase ==
    AtReturn("erase") =>
        LET k == op[Me].key
            p == pre[Me]
        IN  /\ capacity = p.capacity
            /\ k \notin Present
            /\ ~LRU_exists(p.lru, k) => (lru = p.lru /\ usage = p.usage)
            /\ LRU_exists(p.lru, k) =>
                   /\ lru = Without(p.lru, k)
                   /\ Present = KeysOf(p.lru) \ {k}
                   /\ usage = p.usage - EntryOf(p.lru, k).data.size
            /\ EraseOutcome(lru, usage, k) = [lru |-> lru, usage |-> usage]
            /\ [lru |-> lru, usage |-> usage] = EraseOutcome(p.lru, p.usage, k)

\* a present entry of positive size was erased from among three
C5_Witness ==
    /\ AtReturn("erase")
    /\ LRU_exists(pre[Me].lru, op[Me].key)
    /\ EntryOf(pre[Me].lru, op[Me].key).data.size > 0
    /\ Len(lru) >= 2

\* an absent key was erased from a cache that holds entries
C5_WitnessAbsent ==
    /\ AtReturn("erase")
    /\ ~LRU_exists(pre[Me].lru, op[Me].key)
    /\ Len(lru) >= 2

(***************************************************************************)
(* C6.  Read operations: get, exists and size change neither usage,        *)
(* capacity nor the present entries; get returns absent exactly when the   *)
(* key is not present and else the payload most recently inserted for it;  *)
(* exists and size leave the recency order as it was, and so does get of   *)
(* an absent key, while get of a present key moves that key, and only it,  *)
(* to the most-recently-used position.                                     *)
(***************************************************************************)
EntrySet(l) == {l[i] : i \in 1..Len(l)}

C6_ReadsHaveNoSideEffect ==
    (pc[Me] = "done" /\ op[Me].name \in {"get", "exists", "size"}) =>
        LET k == op[Me].key
            p == pre[Me]
        IN  /\ usage = p.usage
            /\ capacity = p.capacity
            /\ EntrySet(lru) = EntrySet(p.lru)
            /\ op[Me].name = "size" =>
                   lru = p.lru /\ ret[Me].num = Cardinality(KeysOf(p.lru))
            /\ op[Me].name = "exists" =>
                   /\ lru = p.lru
                   /\ ret[Me].kind = IF k \in KeysOf(p.lru) THEN "true" ELSE "false"
            /\ op[Me].name = "get" =>
                   /\ ret[Me].kind = "absent" <=> k \notin KeysOf(p.lru)
                   /\ k \notin KeysOf(p.lru) => lru = p.lru
                   /\ k \in KeysOf(p.lru) =>
                          /\ ret[Me].kind = "data"
                          /\ ret[Me].data = lastIns[k]
                          /\ KeySeq(lru) = <<k>> \o SeqWithout(KeySeq(p.lru), k)

\* get returned the payload of a key that was not the most recently used
C6_Witness ==
    /\ AtReturn("get")
    /\ ret[Me].kind = "data"
    /\ Len(lru) >= 3
    /\ pre[Me].lru[1].key # op[Me].key
    /\ lru[1].key = op[Me].key
    /\ usage > 0

\* exists answered true for a key that is not the most recently used
C6_WitnessExists ==
    /\ AtReturn("exists")
    /\ ret[Me].kind = "true"
    /\ Len(lru) >= 2
    /\ lru[1].key # op[Me].key

(***************************************************************************)
(* C7.  set_capacity(c) with c <= 0 is ignored: its one step goes straight *)
(* to the return (free_memory is not entered) and leaves capacity, usage,  *)
(* the entries and the recency order as they were.                         *)
(***************************************************************************)
C7_NonPositiveCapacityIgnored ==
    [][(pc[Me] = "set_capacity" /\ op[Me].cap <= 0) =>
          /\ pc'[Me] = "done"
          /\ UNCHANGED <<lru, usage, capacity, key_array, threshhold, delta_size,
                         released_size>>]_vars

\* a capacity <= 0 was refused by a cache holding entries, whose usage is
\* above it
C7_Witness ==
    /\ AtReturn("set_capacity")
    /\ op[Me].cap <= 0
    /\ Len(lru) >= 2
    /\ usage > 0
    /\ capacity > 0
    /\ capacity = pre[Me].capacity

(***************************************************************************)
(* C8.  set_capacity(c) with c > 0 sets capacity to c and runs the         *)
(* eviction algorithm against it: in a sequential run, when it returns,    *)
(* nothing was removed if usage <= c, and if usage > c then usage is at or *)
(* below floor(c * 0.85) and the removed entries are the least recently    *)
(* used ones.                                                              *)
(***************************************************************************)
IsMruPrefix(l, whole) == Len(l) <= Len(whole) /\ l = SubSeq(whole, 1, Len(l))

SetCapacityDone == AtReturn("set_capacity") /\ op[Me].cap > 0

C8_SetCapacityEvicts ==
    SetCapacityDone =>
        LET c == op[Me].cap
            p == pre[Me]
        IN  /\ capacity = c
            /\ p.usage <= c => (lru = p.lru /\ usage = p.usage)
            /\ p.usage > c =>
                   /\ usage <= FloorThreshold(c)
                   /\ IsMruPrefix(lru, p.lru)

\* the same, for caches whose entry-count cap is never reached
C8_SetCapacityEvictsBelowCap == CapNotReached => C8_SetCapacityEvicts

(***************************************************************************)
(* C9.  clear() removes every entry and resets usage to zero while leaving *)
(* capacity unchanged: in the state its last step produces, size() is 0,   *)
(* exists(k) is false for every key and usage is 0.  From then on, also    *)
(* while another thread's eviction pass still holds keys collected before  *)
(* the clear, the cache stays empty with usage 0 until an insert puts an   *)
(* entry: the pass's erase calls are no-ops.                               *)
(***************************************************************************)
\* this step is an insert's first step
InsertPuts == \E t \in Threads : pc[t] = "insert" /\ pc'[t] # "insert"

C9_ClearEmpties ==
    [][/\ \A t \in Threads :
              (pc[t] \in {"clear", "clear_zero"} /\ pc'[t] # pc[t])
                  => capacity' = capacity
       /\ \A t \in Threads :
              (pc[t] = "clear_zero" /\ pc'[t] = "done") =>
                  /\ LRU_size(lru') = 0
                  /\ \A k \in Keys : ~LRU_exists(lru', k)
                  /\ usage' = 0
       /\ (lru = <<>> /\ usage = 0 /\ mutex = 0 /\ ~InsertPuts)
              => (lru' = <<>> /\ usage' = 0)]_vars

\* a thread is about to erase the keys its traversal collected, and another
\* thread's clear has emptied the cache in between
C9_Witness ==
    \E t, s \in Threads :
        /\ pc[t] = "fm_erase"
        /\ key_array[t] # {}
        /\ pc[s] = "done"
        /\ op[s].name = "clear"
        /\ lru = <<>>
        /\ usage = 0

(***************************************************************************)
(* C10.  Worked scenario: a cache of capacity 100 (threshold ratio 0.85,   *)
(* entry-count cap out of reach) after insert A(40), insert B(40),         *)
(* insert C(40) holds exactly B and C with usage 80, the eviction having   *)
(* had delta 35; after get(B) and insert D(50) it holds exactly D with     *)
(* usage 50, the eviction having had delta 45 and released C and B.        *)
(***************************************************************************)
C10_WorkedScenario ==
    /\ (scen = 3 /\ pc[Me] = "fm_scan") => (threshhold[Me] = 85 /\ delta_size[Me] = 35)
    /\ (scen = 3 /\ pc[Me] = "idle") => (Present = {"B", "C"} /\ usage = 80)
    /\ (scen = 4 /\ pc[Me] = "idle") => (KeySeq(lru) = <<"B", "C">> /\ usage = 80)
    /\ (scen = 5 /\ pc[Me] = "fm_scan") => delta_size[Me] = 45
    /\ (scen = 5 /\ pc[Me] = "fm_print") => PassRemoved = {"B", "C"}
    /\ (scen = 5 /\ pc[Me] = "idle") => (Present = {"D"} /\ usage = 50)

\* the five calls of the scenario have returned
C10_Witness == scen = 5 /\ pc[Me] = "idle" /\ capacity = 100

(***************************************************************************)
(* C11.  Disjoint keys: two threads each insert and erase keys of their own *)
(* only, under a capacity no usage reaches.  Once every call has returned,  *)
(* each key is present exactly when the last call its thread made on it was *)
(* an insert, it then holds the payload of that insert, and usage equals    *)
(* the sum of the sizes of the present entries.                             *)
(***************************************************************************)
Quiescent == \A t \in Threads : pc[t] = "idle" /\ capbuf[t] = 0

OwnedKeys == UNION {OwnKeys(t) : t \in Threads}

C11_DisjointKeys ==
    Quiescent =>
        /\ \A k \in OwnedKeys :
              /\ k \in Present <=> lastCall.of[k].name = "insert"
              /\ k \in Present => EntryOf(lru, k).data = lastCall.of[k].data
        /\ usage = SumSizes(lru)

\* the same with the entry-count cap out of reach
C11_DisjointKeysBelowCap == CapNotReached => C11_DisjointKeys

\* both threads have inserted and thread 1 has erased one of its keys again,
\* with every call returned and the cap out of reach
C11_WitnessBelowCap ==
    /\ Quiescent
    /\ CapNotReached
    /\ lastCall.of["A"].name = "erase"
    /\ lastCall.of["B"].name = "insert"
    /\ lastCall.of["C"].name = "insert"
    /\ Present = {"B", "C"}

(***************************************************************************)
(* C12.  Consistent reads of usage: whenever a thread reads usage_ outside *)
(* a critical section (insert's check usage_ > capacity_ after its         *)
(* mutation, free_memory's check usage_ <= capacity_, and free_memory's    *)
(* delta_size = usage_ - threshhold), the value read equals the sum of the *)
(* sizes of the entries in the recency index at that moment.               *)
(***************************************************************************)
UnlockedUsageReads == {"insert_check", "fm_check", "fm_delta"}

ReadsUsage(t) == pc[t] \in UnlockedUsageReads /\ pc'[t] # pc[t]

C12_UsageReadsConsistent ==
    [][\A t \in Threads : ReadsUsage(t) => usage = SumSizes(lru)]_vars

(***************************************************************************)
(* C13.  Deadlock freedom and termination: a thread that holds mutex_ is   *)
(* never at a point where it acquires mutex_ (insert has released it       *)
(* before it checks usage_ and runs free_memory, free_memory has released  *)
(* its traversal lock before it calls erase); under fair scheduling every  *)
(* call eventually returns; and one eviction pass makes one traversal and  *)
(* at most one erase per key the traversal collected.                      *)
(***************************************************************************)
\* the positions inside a critical section that is split in two steps
HoldingPcs == {"insert_ow", "insert_new", "erase_rm", "fm_erase_rm", "clear_zero"}

\* the positions of free_memory after its traversal
ErasingPcs == {"fm_erase", "fm_erase_rm"}

C13_NoSelfAcquire == \A t \in Threads : mutex = t => pc[t] \in HoldingPcs

\* after the traversal the pass only erases, prints and returns; every erase
\* it completes takes one key out of key_array, and key_array never grows
C13_OnePass ==
    \A t \in Threads :
        /\ pc[t] \in ErasingPcs \cup {"fm_print"} =>
              pc'[t] \in ErasingPcs \cup {"fm_print", "done"}
        /\ pc[t] \in ErasingPcs => key_array'[t] \subseteq key_array[t]
        /\ (pc[t] \in ErasingPcs /\ pc'[t] \in {"fm_erase", "fm_print"} /\ pc'[t] # pc[t])
              => Cardinality(key_array'[t]) = Cardinality(key_array[t]) - 1
        /\ (pc[t] = "fm_erase" /\ pc'[t] = "fm_erase" /\ key_array'[t] # key_array[t])
              => Cardinality(key_array'[t]) = Cardinality(key_array[t]) - 1
        /\ pc[t] = "fm_print" => key_array[t] = {}

C13_EveryCallReturns == \A t \in Threads : pc[t] # "idle" ~> pc[t] = "idle"

PassErases(t) ==
    /\ pc[t] = "fm_erase"
    /\ pc'[t] # "fm_erase" \/ key_array'[t] # key_array[t]

C14_PassErase ==
    \A t \in Threads :
        PassErases(t) =>
            LET k == NextKey(key_array[t]) IN
            IF k \notin Present
            THEN lru' = lru /\ usage' = usage
            ELSE /\ usage' = usage - EntryOf(lru, k).data.size
                 /\ KeysOf(lru') = Present

\* thread t has made its traversal and has not yet returned, and the usage it
\* read for delta_size was the sum of the sizes its traversal collected: usage
\* and index agreed when the pass took its snapshot
PassUnderWay(t) ==
    /\ pc[t] \in ErasingPcs \cup {"fm_print"}
    /\ delta_size[t] + threshhold[t] = released_size[t]

C14_UsageWhenFree ==
    (mutex = 0 /\ \E t \in Threads : PassUnderWay(t)) => usage = SumSizes(lru)

C14_StaleSnapshotSafe == [][C14_PassErase]_vars /\ []C14_UsageWhenFree

\* the same with the entry-count cap out of reach
C14_StaleSnapshotSafeBelowCap ==
    [][C14_PassErase]_vars /\ []((CapNotReached /\ mutex = 0) => usage = SumSizes(lru))

\* a pass is about to erase a key it collected when the key held 50, and the
\* other thread has overwritten the key with a payload of 40 in between
C14_WitnessOverwritten ==
    \E t \in Threads : \E k \in ConcKeys :
        /\ CapNotReached
        /\ pc[t] = "fm_erase"
        /\ mutex = 0
        /\ k = NextKey(key_array[t])
        /\ released_size[t] = 50
        /\ k \in Present
        /\ EntryOf(lru, k).data.size = 40

(***************************************************************************)
(* C15.  Eviction is a no-op below capacity: in a sequential run whose     *)
(* entry-count cap is not reached, when an insert has left usage <=        *)
(* capacity, every entry present before it other than the inserted key is  *)
(* still present with the same payload, the inserted key is present with   *)
(* the new payload, and no key was collected for removal; and when         *)
(* free_memory is invoked (through an accepted set_capacity) while usage   *)
(* <= capacity, usage, the key set and the recency order are what they     *)
(* were.                                                                   *)
(***************************************************************************)
\* usage as insert leaves it before its check: old size out, new size in
PostInsertUsage ==
    LET k == op[Me].key
        p == pre[Me]
    IN  IF k \in KeysOf(p.lru)
        THEN p.usage - EntryOf(p.lru, k).data.size + op[Me].data.size
        ELSE p.usage + op[Me].data.size

C15_NoEvictionBelowCapacity ==
    CapNotReached =>
        /\ (AtReturn("insert") /\ PostInsertUsage <= capacity) =>
              /\ \A e \in EntrySet(pre[Me].lru) :
                     e.key # op[Me].key => e \in EntrySet(lru)
              /\ op[Me].key \in Present
              /\ EntryOf(lru, op[Me].key).data = op[Me].data
              /\ LRU_size(lru) = Cardinality(KeysOf(pre[Me].lru) \cup {op[Me].key})
              /\ usage = PostInsertUsage
              /\ passOrder = <<>>
        /\ (SetCapacityDone /\ pre[Me].usage <= op[Me].cap) =>
              /\ usage = pre[Me].usage
              /\ lru = pre[Me].lru
              /\ passOrder = <<>>

\* an insert has filled the cache exactly to its capacity and has returned
C15_Witness ==
    /\ CapNotReached
    /\ AtReturn("insert")
    /\ capacity = 100
    /\ usage = capacity
    /\ LRU_size(lru) = 2
    /\ LRU_size(pre[Me].lru) = 1

\* set_capacity has lowered the capacity exactly to the usage and has returned
C15_WitnessSetCapacity ==
    /\ CapNotReached
    /\ SetCapacityDone
    /\ pre[Me].capacity = 100
    /\ op[Me].cap = 50
    /\ usage = 50
    /\ lru # <<>>

(***************************************************************************)
(* C16.  Release-set selection: a sequential eviction pass computes delta  *)
(* as usage - floor(capacity * 0.85); its traversal collects exactly the   *)
(* shortest prefix of the least-recently-used-first order whose sizes sum  *)
(* to at least delta, or every entry when all sizes together stay below    *)
(* delta; without its most recently used entry the collected sizes sum to  *)
(* less than delta; and the pass removes the collected keys and no other.  *)
(***************************************************************************)
\* the n least recently used entries of l, and the sum of their sizes
LruFirst(l, n) == SubSeq(l, Len(l) - n + 1, Len(l))

PrefixSize(l, n) == SumSizes(LruFirst(l, n))

\* the length of the shortest least-recently-used-first prefix reaching delta
ShortestPrefix(l, delta) ==
    LET reach == {n \in 0..Len(l) : PrefixSize(l, n) >= delta}
    IN  IF reach = {} THEN Len(l)
        ELSE CHOOSE n \in reach : \A m \in reach : n <= m

C16_ReleaseSetStep ==
    /\ (pc[Me] = "fm_delta" /\ pc'[Me] = "fm_scan") =>
          delta_size'[Me] = usage - FloorThreshold(capacity)
    /\ (pc[Me] = "fm_scan" /\ pc'[Me] # "fm_scan") =>
          LET n == ShortestPrefix(lru, delta_size[Me])
          IN  /\ key_array'[Me] = KeysOf(LruFirst(lru, n))
              /\ released_size'[Me] = PrefixSize(lru, n)
              /\ (PrefixSize(lru, Len(lru)) < delta_size[Me]) => n = Len(lru)
              /\ n > 0 =>
                    released_size'[Me] - lru[Len(lru) - n + 1].data.size
                        < delta_size[Me]
    /\ pc[Me] \in ErasingPcs =>
          /\ Present \ KeysOf(lru') \subseteq key_array[Me]
          /\ (key_array[Me] \ key_array'[Me]) \cap KeysOf(lru') = {}

InsertDone ==
    /\ AtReturn("insert")
    /\ CapNotReached
    /\ capacity > 0
    /\ pre[Me].usage = SumSizes(pre[Me].lru)

C17_FateOfInsertedKey ==
    InsertDone =>
        /\ op[Me].key \in Present <=>
              \/ PostInsertUsage <= capacity
              \/ op[Me].data.size <= FloorThreshold(capacity)
        /\ op[Me].data.size > capacity => (lru = <<>> /\ usage = 0)

\* an entry larger than the whole capacity was inserted into a cache holding
\* other entries, and its insert has emptied the cache
C17_Witness ==
    /\ InsertDone
    /\ op[Me].data.size > capacity
    /\ pre[Me].lru # <<>>
    /\ lru = <<>>
    /\ usage = 0

\* an insert has passed the capacity and its key has stayed, others evicted
C17_WitnessKept ==
    /\ InsertDone
    /\ PostInsertUsage > capacity
    /\ Present = {op[Me].key}
    /\ LRU_size(pre[Me].lru) = 2

(***************************************************************************)
(* C18.  Quiescent capacity bound: with capacity > 0 and the entry-count   *)
(* cap not reached, in every interleaving of concurrent insert, get,       *)
(* erase, clear and set_capacity calls, once every call has returned (and  *)
(* every store to capacity_ has reached memory) usage <= capacity, for the *)
(* capacity then in force.                                                 *)
(***************************************************************************)
C18_QuiescentBound ==
    (Quiescent /\ CapNotReached /\ capacity > 0) => usage <= capacity

(***************************************************************************)
(* C19.  Usage is never negative: with payload sizes that are non-negative *)
(* and do not change, usage >= 0 in every reachable state of every         *)
(* interleaving of insert, erase, clear, set_capacity and eviction passes, *)
(* also inside an overwriting insert after it has subtracted the old size  *)
(* and before it has added the new one.                                    *)
(***************************************************************************)
C19_UsageNonNegative == usage >= 0

\* an overwriting insert has subtracted the old size, which was all of usage,
\* and has not yet added the new one
C19_Witness ==
    \E t \in Threads :
        /\ pc[t] = "insert_ow"
        /\ mutex = t
        /\ usage = 0
        /\ EntryOf(lru, op[t].key).data.size > 0

=============================================================================
